---- MODULE Spec2Model ----
(***************************************************************************)
(* A model of fesql::vm::Engine (the compile cache) and of the RunSession  *)
(* entry points of src/src/vm/engine.cc.                                   *)
(*                                                                         *)
(* Every caller thread owns one RunSession.  A CompileInfo lives in a heap *)
(* slot and is owned through std::shared_ptr, modelled by an explicit      *)
(* reference count: the object is destroyed by the step that drops the     *)
(* count to zero.  The program counter of a thread names the source line   *)
(* it is about to execute.                                                 *)
(***************************************************************************)
EXTENDS Integers, Sequences, FiniteSets, TLC

\* ---------------------------------------------------------------- bounds
NumThreads == 2
NumDBs == 2
NumSQLs == 1
\* The databases that concurrent callers use (a prefix of DBs).
NumRaceDBs == 1

Threads == 1..NumThreads
DBs == 1..NumDBs
SQLs == 1..NumSQLs
RaceDBs == {d \in DBs : d <= NumRaceDBs}
\* The callers of a sequential run (a prefix of Threads).
NumSeqThreads == 1
SeqThreads == {t \in Threads : t <= NumSeqThreads}
\* The calls that a thread of FairSpec begins.
MaxCalls == 2
\* The row values, and the longest table a runner returns.
NumRows == 2
MaxTableRows == 2
\* The largest limit passed to BatchRunSession::Run(rows, limit).
MaxLimit == 2
Rows == 1..NumRows

\* The address of a CompileInfo.  The allocator keeps the objects of one
\* (mode, db, sql) in an arena of their own, with a slot for every owner that
\* can exist at once (the cache entry, every session, every local
\* shared_ptr): operator new never fails in the model.
SlotsPerKey == 1..(2 * NumThreads + 1)
InfoIds == BOOLEAN \X DBs \X SQLs \X SlotsPerKey

\* The empty std::shared_ptr<CompileInfo>().
NullInfo == <<>>

\* The content of a heap slot that holds no object.
FreeInfo == [sql |-> 0, db |-> 0, is_batch_mode |-> FALSE,
             physical_plan |-> FALSE, runner |-> FALSE]

VARIABLES
    mu_,             \* Engine::mu_: the thread that holds the spin lock, 0 if free
    batch_cache_,    \* Engine::batch_cache_: db -> (sql -> CompileInfo)
    request_cache_,  \* Engine::request_cache_
    compile_only,    \* options_.is_compile_only()
    heap,            \* the CompileInfo objects, by address
    refs,            \* use_count of each CompileInfo
    pc,              \* per thread: the line it is about to execute
    call,            \* per thread: the call in progress and its arguments
    is_batch,        \* per thread: session.IsBatchRun()
    compile_info_,   \* per thread: RunSession::compile_info_
    info,            \* per thread: the local shared_ptr `info` of Engine::Get
    ncompile,        \* per thread: SQLCompiler::Compile calls made by the call
    nbuild,          \* per thread: SQLCompiler::BuildRunner calls made by the call
    \* History (written, never read, by the program's steps)
    lastbound,       \* per key: the instance a Get last bound, since the last clear
    prior,           \* per thread: lastbound of the key when the Get was called
    skey,            \* per thread: the key whose Get bound the session
    cleared,         \* per thread: ClearCache(db of skey) ran since the binding
    requested,       \* the keys that Get has been called with
    first,           \* per thread: no Get had been called with the key before
    \* History of the clears (kept by ClearSpec)
    pending,         \* per thread: the objects alive when its ClearCache was called
    stale,           \* the objects whose compilation began before a ClearCache
                     \* of their database that has returned
    stale0,          \* per thread: stale as it was when its Get was called
    \* History of the calls (kept by FairSpec)
    calls,           \* per thread: the Get and ClearCache calls it has begun
    \* History of a sequential run (calls that do not overlap)
    last,            \* the Get or ClearCache call that returned last
    cache0,          \* the two caches as they were when the current call began
    \* The frame of the Explain or Run call in progress
    explain_output,  \* *explain_output
    output,          \* the handler that runner->RunWithCache(ctx) returned
    out_row,         \* *out_row of RequestRunSession::Run
    rows,            \* rows of BatchRunSession::Run(rows, limit)
    limit,           \* limit of BatchRunSession::Run(rows, limit)
    table,           \* the handler that BatchRunSession::Run() returns
    run_ret,         \* the int32_t that a Run returns
    pre              \* history: out_row and rows as they were at the call

engine == <<mu_, batch_cache_, request_cache_, compile_only, heap, refs>>
locals == <<pc, call, is_batch, compile_info_, info, ncompile, nbuild>>
history == <<lastbound, prior, skey, cleared, requested, first>>
seqhistory == <<last, cache0>>
clearhistory == <<pending, stale, stale0>>
callhistory == <<calls>>
frame == <<explain_output, output, out_row, rows, limit, table, run_ret, pre>>
vars == <<engine, locals, history, clearhistory, callhistory, seqhistory, frame>>

NoCall == [op |-> "none", sql |-> 0, db |-> 0, is_batch |-> FALSE]
NoKey == [is_batch |-> FALSE, db |-> 0, sql |-> 0]
NoLast == [op |-> "none", sql |-> 0, db |-> 0, is_batch |-> FALSE, ok |-> FALSE]
NoSnapshot == <<>>

\* Row(): the default-constructed row.
NoRow == 0
\* The sequences of at most n rows.
RowSeqs(n) == UNION {[1..m -> Rows] : m \in 0..n}

\* What RunWithCache can return: a null pointer, or a handler with the
\* value of GetHanlderType(), the rows it holds and whether GetIterator()
\* yields an iterator.  "kOther" is a discriminant outside the three
\* enumerators.
NullHandler == [type |-> "null", rows |-> <<>>, iter |-> FALSE]
Handlers ==
    {NullHandler}
    \cup [type : {"kTableHandler"}, rows : RowSeqs(MaxTableRows), iter : BOOLEAN]
    \cup [type : {"kRowHandler"}, rows : RowSeqs(1) \ {<<>>}, iter : {FALSE}]
    \cup [type : {"kPartitionHandler", "kOther"}, rows : {<<>>}, iter : {FALSE}]

\* std::shared_ptr<TableHandler>(): no table.
NoTable == [handler |-> "null", rows |-> <<>>]
NoPlan == [sql |-> 0, db |-> 0, is_batch |-> FALSE]
NoPre == [out_row |-> NoRow, rows |-> <<>>]
Keys == [is_batch : BOOLEAN, db : DBs, sql : SQLs]

\* ------------------------------------------------------- std::map helpers
\* EngineCache is std::map<string, std::map<string, shared_ptr<CompileInfo>>>:
\* a function whose domain is the set of databases that have an inner map.

\* Mutant of Find: the lookup ends in `return std::shared_ptr<CompileInfo>()`.
FindNothing(cache, db, sql) == NullInfo

\* find(db) then find(sql): the stored pointer, or the empty pointer.
Find(cache, db, sql) ==
    IF db \notin DOMAIN cache THEN NullInfo
    ELSE IF sql \notin DOMAIN cache[db] THEN NullInfo
    ELSE cache[db][sql]

\* Mutant of CacheOf: the lookup goes to the batch cache in both modes.
CacheOfBatch(b) == batch_cache_

\* GetCacheLocked's choice of the cache by is_batch.
CacheOf(b) == IF b THEN batch_cache_ ELSE request_cache_

\* cache[db]: operator[] default-constructs the inner map when db is absent.
Index(cache, db) ==
    IF db \in DOMAIN cache THEN cache
    ELSE [d \in DOMAIN cache \cup {db} |->
             IF d = db THEN [s \in {} |-> NullInfo] ELSE cache[d]]

\* Mutant of InsertIfAbsent: sql_in_db[sql] = i, with no look at the entry.
InsertOverwrite(cache, db, sql, i) ==
    LET c == Index(cache, db) IN
    [c EXCEPT ![db] = [s \in DOMAIN c[db] \cup {sql} |->
                          IF s = sql THEN i ELSE c[db][s]]]

\* sql_in_db.find(sql) == end() ? insert(make_pair(sql, i)) : keep the entry.
InsertIfAbsent(cache, db, sql, i) ==
    LET c == Index(cache, db) IN
    IF sql \in DOMAIN c[db] THEN c
    ELSE [c EXCEPT ![db] = [s \in DOMAIN c[db] \cup {sql} |->
                               IF s = sql THEN i ELSE c[db][s]]]

\* Mutant of Erase: the erase is missing.
EraseNothing(cache, db) == cache

\* Mutant of Erase: cache.clear() in place of cache.erase(db).
EraseAll(cache, db) == [d \in {} |-> cache[d]]

\* cache.erase(db)
Erase(cache, db) == [d \in DOMAIN cache \ {db} |-> cache[d]]

\* The pointers stored under db.
Stored(cache, db) ==
    IF db \in DOMAIN cache THEN {cache[db][s] : s \in DOMAIN cache[db]} ELSE {}

\* Every pointer stored in a cache.
Entries(cache) == UNION {Stored(cache, d) : d \in DOMAIN cache}

\* -------------------------------------------------- shared_ptr helpers
\* Copy of a shared_ptr: one more owner.
Retain(r, i) == IF i = NullInfo THEN r ELSE [r EXCEPT ![i] = @ + 1]

\* Destruction or reassignment of a shared_ptr: one owner less.
Release(r, i) == IF i = NullInfo THEN r ELSE [r EXCEPT ![i] = @ - 1]

\* Mutant of ReleaseStored: the erase deletes the stored objects outright.
ReleaseStoredDestroy(r, cache, db) ==
    [i \in InfoIds |-> IF i \in Stored(cache, db) THEN 0 ELSE r[i]]

\* The owners that the erase of db's inner map destroys.
ReleaseStored(r, cache, db) ==
    [i \in InfoIds |-> IF i \in Stored(cache, db) THEN r[i] - 1 ELSE r[i]]

\* ~CompileInfo runs for every object whose last owner is gone.
Reclaim(h, r) == [i \in InfoIds |-> IF r[i] = 0 THEN FreeInfo ELSE h[i]]

\* operator new: the lowest free slot of the arena (addresses are reused).
NewInfo(b, db, sql) ==
    LET free == {n \in SlotsPerKey : refs[<<b, db, sql, n>>] = 0}
    IN <<b, db, sql, CHOOSE n \in free : \A m \in free : n <= m>>

\* RunSession::SetCompileInfo: compile_info_ = compile_info.
SetCompileInfo(r, t, i) == Release(Retain(r, i), compile_info_[t])

\* ------------------------------------------------------------------ Init
Init ==
    /\ mu_ = 0
    /\ batch_cache_ = [d \in {} |-> [s \in {} |-> NullInfo]]
    /\ request_cache_ = [d \in {} |-> [s \in {} |-> NullInfo]]
    /\ compile_only \in BOOLEAN
    /\ heap = [i \in InfoIds |-> FreeInfo]
    /\ refs = [i \in InfoIds |-> 0]
    /\ pc = [t \in Threads |-> "idle"]
    /\ call = [t \in Threads |-> NoCall]
    /\ is_batch \in [Threads -> BOOLEAN]
    /\ compile_info_ = [t \in Threads |-> NullInfo]
    /\ info = [t \in Threads |-> NullInfo]
    /\ ncompile = [t \in Threads |-> 0]
    /\ nbuild = [t \in Threads |-> 0]
    /\ lastbound = [k \in Keys |-> NullInfo]
    /\ prior = [t \in Threads |-> NullInfo]
    /\ skey = [t \in Threads |-> NoKey]
    /\ cleared = [t \in Threads |-> FALSE]
    /\ requested = {}
    /\ first = [t \in Threads |-> FALSE]
    /\ pending = [t \in Threads |-> {}]
    /\ stale = {}
    /\ stale0 = [t \in Threads |-> {}]
    /\ calls = [t \in Threads |-> 0]
    /\ last = NoLast
    /\ cache0 = NoSnapshot
    /\ explain_output = NoPlan
    /\ output = NullHandler
    /\ out_row = NoRow
    /\ rows = <<>>
    /\ limit = 0
    /\ table = NoTable
    /\ run_ret = 0
    /\ pre = NoPre

\* The key of the Get that thread t is in.
KeyOf(t) == [is_batch |-> is_batch[t], db |-> call[t].db, sql |-> call[t].sql]

\* A call starts.
Enter(t, c, label) ==
    /\ pc[t] = "idle"
    /\ pc' = [pc EXCEPT ![t] = label]
    /\ call' = [call EXCEPT ![t] = c]

\* A call returns: its frame is gone.
Leave(t) ==
    /\ pc' = [pc EXCEPT ![t] = "idle"]
    /\ call' = [call EXCEPT ![t] = NoCall]
    /\ ncompile' = [ncompile EXCEPT ![t] = 0]
    /\ nbuild' = [nbuild EXCEPT ![t] = 0]
    /\ prior' = [prior EXCEPT ![t] = NullInfo]
    /\ first' = [first EXCEPT ![t] = FALSE]

\* --------------------------------------------------------- RunSession
\* The caller drops its session (~RunSession releases compile_info_) and
\* constructs a new one, batch or request.
NewSession(t, b) ==
    /\ pc[t] = "idle"
    /\ is_batch' = [is_batch EXCEPT ![t] = b]
    /\ compile_info_' = [compile_info_ EXCEPT ![t] = NullInfo]
    /\ refs' = Release(refs, compile_info_[t])
    /\ heap' = Reclaim(heap, refs')
    /\ skey' = [skey EXCEPT ![t] = NoKey]
    /\ cleared' = [cleared EXCEPT ![t] = FALSE]
    /\ UNCHANGED <<mu_, batch_cache_, request_cache_, compile_only>>
    /\ UNCHANGED <<pc, call, info, ncompile, nbuild, lastbound, prior, requested, first>>

\* --------------------------------------------------------- Engine::Get
\* Engine::Get(sql, db, session, status) is called.
GetCall(t, sql, db) ==
    LET k == [is_batch |-> is_batch[t], db |-> db, sql |-> sql] IN
    /\ Enter(t, [op |-> "Get", sql |-> sql, db |-> db, is_batch |-> is_batch[t]],
             "Get_68")
    /\ prior' = [prior EXCEPT ![t] = lastbound[k]]
    /\ requested' = requested \cup {k}
    /\ first' = [first EXCEPT ![t] = k \notin requested]
    /\ UNCHANGED <<engine, is_batch, compile_info_, info, ncompile, nbuild>>
    /\ UNCHANGED <<lastbound, skey, cleared>>

\* GetCacheLocked: std::lock_guard acquires mu_.
GetCacheLocked_lock(t) ==
    /\ pc[t] = "Get_68"
    /\ mu_ = 0
    /\ mu_' = t
    /\ pc' = [pc EXCEPT ![t] = "GetCache_163"]
    /\ UNCHANGED <<batch_cache_, request_cache_, compile_only, heap, refs>>
    /\ UNCHANGED <<call, is_batch, compile_info_, info, ncompile, nbuild, history>>

\* Mutant of GetCacheLocked: on a miss the lock stays held (the guard's scope
\* reaches over the compilation).
GetCacheLockedKeepsLock(t) ==
    /\ pc[t] = "GetCache_163"
    /\ mu_ = t
    /\ LET found == Find(CacheOf(call[t].is_batch), call[t].db, call[t].sql) IN
       IF found /= NullInfo
       THEN /\ mu_' = 0
            /\ compile_info_' = [compile_info_ EXCEPT ![t] = found]
            /\ refs' = SetCompileInfo(refs, t, found)
            /\ heap' = Reclaim(heap, refs')
            /\ pc' = [pc EXCEPT ![t] = "Get_71"]
            /\ lastbound' = [lastbound EXCEPT ![KeyOf(t)] = found]
            /\ skey' = [skey EXCEPT ![t] = KeyOf(t)]
            /\ cleared' = [cleared EXCEPT ![t] = FALSE]
       ELSE /\ mu_' = t
            /\ pc' = [pc EXCEPT ![t] = "Get_75"]
            /\ UNCHANGED <<compile_info_, refs, heap, lastbound, skey, cleared>>
    /\ UNCHANGED <<batch_cache_, request_cache_, compile_only>>
    /\ UNCHANGED <<call, is_batch, info, ncompile, nbuild, prior, requested, first>>

\* GetCacheLocked: the lookup in the cache of the mode, the lock released on
\* return.  On a hit Get binds the session (line 70) and is about to return
\* true; on a miss it goes on to line 75.
GetCacheLocked(t) ==
    /\ pc[t] = "GetCache_163"
    /\ mu_ = t
    /\ mu_' = 0
    /\ LET found == Find(CacheOf(call[t].is_batch), call[t].db, call[t].sql) IN
       IF found /= NullInfo
       THEN /\ compile_info_' = [compile_info_ EXCEPT ![t] = found]
            /\ refs' = SetCompileInfo(refs, t, found)
            /\ heap' = Reclaim(heap, refs')
            /\ pc' = [pc EXCEPT ![t] = "Get_71"]
            /\ lastbound' = [lastbound EXCEPT ![KeyOf(t)] = found]
            /\ skey' = [skey EXCEPT ![t] = KeyOf(t)]
            /\ cleared' = [cleared EXCEPT ![t] = FALSE]
       ELSE /\ pc' = [pc EXCEPT ![t] = "Get_75"]
            /\ UNCHANGED <<compile_info_, refs, heap, lastbound, skey, cleared>>
    /\ UNCHANGED <<batch_cache_, request_cache_, compile_only>>
    /\ UNCHANGED <<call, is_batch, info, ncompile, nbuild, prior, requested, first>>

\* Mutant of GetNew: is_batch_mode keeps its default and is not set from
\* the session.
GetNewDefaultMode(t) ==
    /\ pc[t] = "Get_75"
    /\ LET i == NewInfo(is_batch[t], call[t].db, call[t].sql) IN
       /\ info' = [info EXCEPT ![t] = i]
       /\ refs' = [refs EXCEPT ![i] = 1]
       /\ heap' = [heap EXCEPT ![i] = [sql |-> call[t].sql, db |-> call[t].db,
                                       is_batch_mode |-> FALSE,
                                       physical_plan |-> FALSE, runner |-> FALSE]]
    /\ pc' = [pc EXCEPT ![t] = "Get_82"]
    /\ UNCHANGED <<mu_, batch_cache_, request_cache_, compile_only>>
    /\ UNCHANGED <<call, is_batch, compile_info_, ncompile, nbuild, history>>

\* Cache miss: a new CompileInfo with the sql context filled in, and a
\* SQLCompiler constructed on the atomically loaded catalog.
GetNew(t) ==
    /\ pc[t] = "Get_75"
    /\ LET i == NewInfo(is_batch[t], call[t].db, call[t].sql) IN
       /\ info' = [info EXCEPT ![t] = i]
       /\ refs' = [refs EXCEPT ![i] = 1]
       /\ heap' = [heap EXCEPT ![i] = [sql |-> call[t].sql, db |-> call[t].db,
                                       is_batch_mode |-> is_batch[t],
                                       physical_plan |-> FALSE, runner |-> FALSE]]
    /\ pc' = [pc EXCEPT ![t] = "Get_82"]
    /\ UNCHANGED <<mu_, batch_cache_, request_cache_, compile_only>>
    /\ UNCHANGED <<call, is_batch, compile_info_, ncompile, nbuild, history>>

\* compiler.Compile(info->get_sql_context(), status)
GetCompile(t, ok, code) ==
    /\ pc[t] = "Get_82"
    /\ ncompile' = [ncompile EXCEPT ![t] = @ + 1]
    /\ IF ~ok \/ 0 /= code
       THEN /\ pc' = [pc EXCEPT ![t] = "Get_85"]
            /\ UNCHANGED heap
       ELSE /\ heap' = [heap EXCEPT ![info[t]].physical_plan = TRUE]
            /\ pc' = [pc EXCEPT ![t] = IF compile_only THEN "Get_96" ELSE "Get_88"]
    /\ UNCHANGED <<mu_, batch_cache_, request_cache_, compile_only, refs>>
    /\ UNCHANGED <<call, is_batch, compile_info_, info, nbuild, history>>

\* Mutant of GetBuildRunner: the `return false` of a failed BuildRunner is
\* missing and Get goes on to the check block.
GetBuildRunnerIgnoresFailure(t, ok, code) ==
    /\ pc[t] = "Get_88"
    /\ nbuild' = [nbuild EXCEPT ![t] = @ + 1]
    /\ IF ~ok \/ 0 /= code
       THEN UNCHANGED heap
       ELSE heap' = [heap EXCEPT ![info[t]].runner = TRUE]
    /\ pc' = [pc EXCEPT ![t] = "Get_96"]
    /\ UNCHANGED <<mu_, batch_cache_, request_cache_, compile_only, refs>>
    /\ UNCHANGED <<call, is_batch, compile_info_, info, ncompile, history>>

\* Mutant of GetBuildRunner: the artifact is stored before the status of
\* BuildRunner is looked at.
GetBuildRunnerCaching(t, ok, code) ==
    /\ pc[t] = "Get_88"
    /\ nbuild' = [nbuild EXCEPT ![t] = @ + 1]
    /\ IF ~ok \/ 0 /= code
       THEN /\ pc' = [pc EXCEPT ![t] = "Get_91"]
            /\ batch_cache_' =
                  IF is_batch[t]
                  THEN InsertIfAbsent(batch_cache_, call[t].db, call[t].sql, info[t])
                  ELSE batch_cache_
            /\ request_cache_' =
                  IF is_batch[t] THEN request_cache_
                  ELSE InsertIfAbsent(request_cache_, call[t].db, call[t].sql, info[t])
            /\ refs' = Retain(refs, info[t])
            /\ UNCHANGED heap
       ELSE /\ heap' = [heap EXCEPT ![info[t]].runner = TRUE]
            /\ pc' = [pc EXCEPT ![t] = "Get_96"]
            /\ UNCHANGED <<batch_cache_, request_cache_, refs>>
    /\ UNCHANGED <<mu_, compile_only>>
    /\ UNCHANGED <<call, is_batch, compile_info_, info, ncompile, history>>

\* compiler.BuildRunner(info->get_sql_context(), status)
GetBuildRunner(t, ok, code) ==
    /\ pc[t] = "Get_88"
    /\ nbuild' = [nbuild EXCEPT ![t] = @ + 1]
    /\ IF ~ok \/ 0 /= code
       THEN /\ pc' = [pc EXCEPT ![t] = "Get_91"]
            /\ UNCHANGED heap
       ELSE /\ heap' = [heap EXCEPT ![info[t]].runner = TRUE]
            /\ pc' = [pc EXCEPT ![t] = "Get_96"]
    /\ UNCHANGED <<mu_, batch_cache_, request_cache_, compile_only, refs>>
    /\ UNCHANGED <<call, is_batch, compile_info_, info, ncompile, history>>

\* std::lock_guard<base::SpinMutex> lock(mu_) of the check block.
GetLock(t) ==
    /\ pc[t] = "Get_96"
    /\ mu_ = 0
    /\ mu_' = t
    /\ pc' = [pc EXCEPT ![t] = "Get_97"]
    /\ UNCHANGED <<batch_cache_, request_cache_, compile_only, heap, refs>>
    /\ UNCHANGED <<call, is_batch, compile_info_, info, ncompile, nbuild, history>>

\* Mutant of GetInsert: the check block leaves without releasing mu_.
GetInsertKeepsLock(t) ==
    /\ pc[t] = "Get_97"
    /\ mu_ = t
    /\ mu_' = t
    /\ LET db == call[t].db
           sql == call[t].sql
           bc == IF is_batch[t] THEN InsertIfAbsent(batch_cache_, db, sql, info[t])
                 ELSE batch_cache_
           rc == IF is_batch[t] THEN request_cache_
                 ELSE InsertIfAbsent(request_cache_, db, sql, info[t])
           it == IF is_batch[t] THEN bc[db][sql] ELSE rc[db][sql]
           stored == IF bc /= batch_cache_ \/ rc /= request_cache_
                     THEN Retain(refs, info[t]) ELSE refs
       IN /\ batch_cache_' = bc
          /\ request_cache_' = rc
          /\ compile_info_' = [compile_info_ EXCEPT ![t] = it]
          /\ refs' = SetCompileInfo(stored, t, it)
          /\ heap' = Reclaim(heap, refs')
          /\ lastbound' = [lastbound EXCEPT ![KeyOf(t)] = it]
    /\ skey' = [skey EXCEPT ![t] = KeyOf(t)]
    /\ cleared' = [cleared EXCEPT ![t] = FALSE]
    /\ pc' = [pc EXCEPT ![t] = "Get_123"]
    /\ UNCHANGED <<compile_only>>
    /\ UNCHANGED <<call, is_batch, info, ncompile, nbuild, prior, requested, first>>

\* The check block: insert unless the key is present, bind the session to
\* the stored entry, release the lock.
GetInsert(t) ==
    /\ pc[t] = "Get_97"
    /\ mu_ = t
    /\ mu_' = 0
    /\ LET db == call[t].db
           sql == call[t].sql
           bc == IF is_batch[t] THEN InsertIfAbsent(batch_cache_, db, sql, info[t])
                 ELSE batch_cache_
           rc == IF is_batch[t] THEN request_cache_
                 ELSE InsertIfAbsent(request_cache_, db, sql, info[t])
           it == IF is_batch[t] THEN bc[db][sql] ELSE rc[db][sql]
           stored == IF bc /= batch_cache_ \/ rc /= request_cache_
                     THEN Retain(refs, info[t]) ELSE refs
       IN /\ batch_cache_' = bc
          /\ request_cache_' = rc
          /\ compile_info_' = [compile_info_ EXCEPT ![t] = it]
          /\ refs' = SetCompileInfo(stored, t, it)
          /\ heap' = Reclaim(heap, refs')
          /\ lastbound' = [lastbound EXCEPT ![KeyOf(t)] = it]
    /\ skey' = [skey EXCEPT ![t] = KeyOf(t)]
    /\ cleared' = [cleared EXCEPT ![t] = FALSE]
    /\ pc' = [pc EXCEPT ![t] = "Get_123"]
    /\ UNCHANGED <<compile_only>>
    /\ UNCHANGED <<call, is_batch, info, ncompile, nbuild, prior, requested, first>>

\* The value a return statement of Get returns.
GetReturns(label) == label \in {"Get_71", "Get_123"}

\* return true / return false: the local info goes out of scope.
GetReturn(t) ==
    /\ pc[t] \in {"Get_71", "Get_85", "Get_91", "Get_123"}
    /\ refs' = Release(refs, info[t])
    /\ heap' = Reclaim(heap, refs')
    /\ info' = [info EXCEPT ![t] = NullInfo]
    /\ Leave(t)
    /\ UNCHANGED <<mu_, batch_cache_, request_cache_, compile_only>>
    /\ UNCHANGED <<is_batch, compile_info_, lastbound, skey, cleared, requested>>

\* -------------------------------------------- Engine::ClearCacheLocked
ClearCacheCall(t, db) ==
    /\ Enter(t, [op |-> "ClearCache", sql |-> 0, db |-> db, is_batch |-> FALSE],
             "Clear_154")
    /\ UNCHANGED <<engine, is_batch, compile_info_, info, ncompile, nbuild, history>>

\* std::lock_guard<base::SpinMutex> lock(mu_)
ClearCacheLocked_lock(t) ==
    /\ pc[t] = "Clear_154"
    /\ mu_ = 0
    /\ mu_' = t
    /\ pc' = [pc EXCEPT ![t] = "Clear_155"]
    /\ UNCHANGED <<batch_cache_, request_cache_, compile_only, heap, refs>>
    /\ UNCHANGED <<call, is_batch, compile_info_, info, ncompile, nbuild, history>>

\* batch_cache_.erase(db); request_cache_.erase(db); the lock is released.
ClearCacheLocked(t) ==
    /\ pc[t] = "Clear_155"
    /\ mu_ = t
    /\ mu_' = 0
    /\ batch_cache_' = Erase(batch_cache_, call[t].db)
    /\ request_cache_' = Erase(request_cache_, call[t].db)
    /\ refs' = ReleaseStored(ReleaseStored(refs, batch_cache_, call[t].db),
                             request_cache_, call[t].db)
    /\ heap' = Reclaim(heap, refs')
    /\ lastbound' = [k \in Keys |-> IF k.db = call[t].db THEN NullInfo ELSE lastbound[k]]
    /\ cleared' = [u \in Threads |-> cleared[u] \/ skey[u].db = call[t].db]
    /\ prior' = [u \in Threads |->
                   IF u /= t /\ call[u].db = call[t].db THEN NullInfo ELSE prior[u]]
    /\ pc' = [pc EXCEPT ![t] = "Clear_157"]
    /\ UNCHANGED <<compile_only, call, is_batch, compile_info_, info, ncompile, nbuild>>
    /\ UNCHANGED <<skey, requested, first>>

\* ClearCacheLocked returns.
ClearCacheReturn(t) ==
    /\ pc[t] = "Clear_157"
    /\ Leave(t)
    /\ UNCHANGED <<engine, is_batch, compile_info_, info>>
    /\ UNCHANGED <<lastbound, skey, cleared, requested>>

\* ----------------------------------------------------- Engine::Explain
\* Engine::Explain is called; null output arguments are rejected at once.
ExplainCall(t, sql, db, b, valid) ==
    /\ Enter(t, [op |-> "Explain", sql |-> sql, db |-> db, is_batch |-> b],
             IF valid THEN "Explain_133" ELSE "Explain_131")
    /\ UNCHANGED <<engine, is_batch, compile_info_, info, ncompile, nbuild, history>>
    /\ UNCHANGED frame

\* Mutant of ExplainCompile: a successful Explain stores what it compiled
\* in the cache of its mode.
ExplainCompileCaching(t, ok, code) ==
    /\ pc[t] = "Explain_133"
    /\ ncompile' = [ncompile EXCEPT ![t] = @ + 1]
    /\ IF ~ok \/ 0 /= code
       THEN /\ pc' = [pc EXCEPT ![t] = "Explain_143"]
            /\ UNCHANGED <<explain_output, batch_cache_, request_cache_, heap, refs>>
       ELSE LET db == call[t].db
                sql == call[t].sql
                b == call[t].is_batch
                i == NewInfo(b, db, sql)
                absent == Find(CacheOf(b), db, sql) = NullInfo
            IN /\ pc' = [pc EXCEPT ![t] = "Explain_150"]
               /\ explain_output' = [sql |-> sql, db |-> db, is_batch |-> b]
               /\ batch_cache_' =
                     IF b THEN InsertIfAbsent(batch_cache_, db, sql, i) ELSE batch_cache_
               /\ request_cache_' =
                     IF b THEN request_cache_ ELSE InsertIfAbsent(request_cache_, db, sql, i)
               /\ refs' = IF absent THEN [refs EXCEPT ![i] = 1] ELSE refs
               /\ heap' = IF absent
                          THEN [heap EXCEPT ![i] = [sql |-> sql, db |-> db,
                                                    is_batch_mode |-> b,
                                                    physical_plan |-> TRUE,
                                                    runner |-> FALSE]]
                          ELSE heap
    /\ UNCHANGED <<mu_, compile_only, call, is_batch, compile_info_, info, nbuild, history>>
    /\ UNCHANGED <<output, out_row, rows, limit, table, run_ret, pre>>

\* compiler.Compile(ctx, *status) on a transient context built from the
\* arguments, then the copy of its schemas and plans into *explain_output.
ExplainCompile(t, ok, code) ==
    /\ pc[t] = "Explain_133"
    /\ ncompile' = [ncompile EXCEPT ![t] = @ + 1]
    /\ IF ~ok \/ 0 /= code
       THEN /\ pc' = [pc EXCEPT ![t] = "Explain_143"]
            /\ UNCHANGED explain_output
       ELSE /\ pc' = [pc EXCEPT ![t] = "Explain_150"]
            /\ explain_output' = [sql |-> call[t].sql, db |-> call[t].db,
                                  is_batch |-> call[t].is_batch]
    /\ UNCHANGED <<engine, call, is_batch, compile_info_, info, nbuild, history>>
    /\ UNCHANGED <<output, out_row, rows, limit, table, run_ret, pre>>

\* The value a return statement of Explain returns.
ExplainReturns(label) == label = "Explain_150"

\* return false / return true.
ExplainReturn(t) ==
    /\ pc[t] \in {"Explain_131", "Explain_143", "Explain_150"}
    /\ Leave(t)
    /\ explain_output' = NoPlan
    /\ UNCHANGED <<engine, is_batch, compile_info_, info>>
    /\ UNCHANGED <<lastbound, skey, cleared, requested>>
    /\ UNCHANGED <<output, out_row, rows, limit, table, run_ret, pre>>

\* ---------------------------------------------------- RunSession::Run
\* RequestRunSession::Run(in_row, out_row) is called on a request session.
RequestRunCall(t, row) ==
    /\ ~is_batch[t]
    /\ Enter(t, [op |-> "RequestRun", sql |-> 0, db |-> 0, is_batch |-> FALSE],
             "RequestRun_199")
    /\ out_row' = row
    /\ pre' = [out_row |-> row, rows |-> <<>>]
    /\ UNCHANGED <<engine, is_batch, compile_info_, info, ncompile, nbuild, history>>
    /\ UNCHANGED <<explain_output, output, rows, limit, table, run_ret>>

\* BatchRunSession::Run() is called on a batch session.
BatchRunCall(t) ==
    /\ is_batch[t]
    /\ Enter(t, [op |-> "BatchRun", sql |-> 0, db |-> 0, is_batch |-> TRUE],
             "BatchRun_232")
    /\ UNCHANGED <<engine, is_batch, compile_info_, info, ncompile, nbuild, history>>
    /\ UNCHANGED frame

\* BatchRunSession::Run(rows, limit) is called on a batch session.
BatchRunRowsCall(t, rs, lim) ==
    /\ is_batch[t]
    /\ Enter(t, [op |-> "BatchRunRows", sql |-> 0, db |-> 0, is_batch |-> TRUE],
             "BatchRunRows_257")
    /\ rows' = rs
    /\ limit' = lim
    /\ pre' = [out_row |-> NoRow, rows |-> rs]
    /\ UNCHANGED <<engine, is_batch, compile_info_, info, ncompile, nbuild, history>>
    /\ UNCHANGED <<explain_output, output, out_row, table, run_ret>>

\* compile_info_->get_sql_context().runner->RunWithCache(ctx): the runner
\* returns some handler h.  Without a bound CompileInfo, or without a runner
\* tree in it, the call dereferences a null pointer and the process dies.
RunWithCache(t, h) ==
    /\ pc[t] \in {"RequestRun_199", "BatchRun_232", "BatchRunRows_257"}
    /\ IF compile_info_[t] = NullInfo \/ ~heap[compile_info_[t]].runner
       THEN /\ pc' = [pc EXCEPT ![t] = "crashed"]
            /\ UNCHANGED output
       ELSE /\ pc' = [pc EXCEPT ![t] =
                        CASE pc[t] = "RequestRun_199" -> "RequestRun_200"
                          [] pc[t] = "BatchRun_232" -> "BatchRun_233"
                          [] OTHER -> "BatchRunRows_258"]
            /\ output' = h
    /\ UNCHANGED <<engine, call, is_batch, compile_info_, info, ncompile, nbuild>>
    /\ UNCHANGED <<history, explain_output, out_row, rows, limit, table, run_ret, pre>>

\* Mutant of RequestRun: a null output is let through as a success.
RequestRunNullOk(t) ==
    /\ pc[t] = "RequestRun_200"
    /\ CASE output.type = "kTableHandler" ->
              /\ run_ret' = 0
              /\ out_row' = IF output.iter /\ Len(output.rows) > 0
                            THEN Head(output.rows) ELSE out_row
         [] output.type = "kRowHandler" ->
              /\ run_ret' = 0
              /\ out_row' = Head(output.rows)
         [] output.type = "kPartitionHandler" ->
              /\ run_ret' = -1
              /\ UNCHANGED out_row
         [] OTHER ->
              /\ run_ret' = 0
              /\ UNCHANGED out_row
    /\ pc' = [pc EXCEPT ![t] = "Run_return"]
    /\ UNCHANGED <<engine, call, is_batch, compile_info_, info, ncompile, nbuild>>
    /\ UNCHANGED <<history, explain_output, output, rows, limit, table, pre>>

\* Mutant of RequestRun: the table case assigns iter->GetValue() without the
\* test of iter->Valid(), so an empty table writes a default row.
RequestRunNoValidCheck(t) ==
    /\ pc[t] = "RequestRun_200"
    /\ CASE output.type = "null" ->
              /\ run_ret' = -1
              /\ UNCHANGED out_row
         [] output.type = "kTableHandler" ->
              /\ run_ret' = 0
              /\ out_row' = IF ~output.iter THEN out_row
                            ELSE IF Len(output.rows) > 0 THEN Head(output.rows)
                            ELSE NoRow
         [] output.type = "kRowHandler" ->
              /\ run_ret' = 0
              /\ out_row' = Head(output.rows)
         [] output.type = "kPartitionHandler" ->
              /\ run_ret' = -1
              /\ UNCHANGED out_row
         [] OTHER ->
              /\ run_ret' = 0
              /\ UNCHANGED out_row
    /\ pc' = [pc EXCEPT ![t] = "Run_return"]
    /\ UNCHANGED <<engine, call, is_batch, compile_info_, info, ncompile, nbuild>>
    /\ UNCHANGED <<history, explain_output, output, rows, limit, table, pre>>

\* RequestRunSession::Run, from the null check to the return statement.
RequestRun(t) ==
    /\ pc[t] = "RequestRun_200"
    /\ CASE output.type = "null" ->
              /\ run_ret' = -1
              /\ UNCHANGED out_row
         [] output.type = "kTableHandler" ->
              /\ run_ret' = 0
              /\ out_row' = IF output.iter /\ Len(output.rows) > 0
                            THEN Head(output.rows) ELSE out_row
         [] output.type = "kRowHandler" ->
              /\ run_ret' = 0
              /\ out_row' = Head(output.rows)
         [] output.type = "kPartitionHandler" ->
              /\ run_ret' = -1
              /\ UNCHANGED out_row
         [] OTHER ->
              /\ run_ret' = 0
              /\ UNCHANGED out_row
    /\ pc' = [pc EXCEPT ![t] = "Run_return"]
    /\ UNCHANGED <<engine, call, is_batch, compile_info_, info, ncompile, nbuild>>
    /\ UNCHANGED <<history, explain_output, output, rows, limit, table, pre>>

\* Mutant of BatchRun: the row case returns the new MemTableHandler without
\* the AddRow.
BatchRunNoAddRow(t) ==
    /\ pc[t] = "BatchRun_233"
    /\ table' = CASE output.type = "kTableHandler" ->
                       [handler |-> "output", rows |-> output.rows]
                  [] output.type = "kRowHandler" ->
                       [handler |-> "MemTableHandler", rows |-> <<>>]
                  [] OTHER -> NoTable
    /\ pc' = [pc EXCEPT ![t] = "Run_return"]
    /\ UNCHANGED <<engine, call, is_batch, compile_info_, info, ncompile, nbuild>>
    /\ UNCHANGED <<history, explain_output, output, out_row, rows, limit, run_ret, pre>>

\* Mutant of BatchRun: the partition case returns the cast of output, as the
\* table case does.
BatchRunCastsPartition(t) ==
    /\ pc[t] = "BatchRun_233"
    /\ table' = CASE output.type \in {"kTableHandler", "kPartitionHandler"} ->
                       [handler |-> "output", rows |-> output.rows]
                  [] output.type = "kRowHandler" ->
                       [handler |-> "MemTableHandler", rows |-> <<Head(output.rows)>>]
                  [] OTHER -> NoTable
    /\ pc' = [pc EXCEPT ![t] = "Run_return"]
    /\ UNCHANGED <<engine, call, is_batch, compile_info_, info, ncompile, nbuild>>
    /\ UNCHANGED <<history, explain_output, output, out_row, rows, limit, run_ret, pre>>

\* BatchRunSession::Run(), from the null check to the return statement.
BatchRun(t) ==
    /\ pc[t] = "BatchRun_233"
    /\ table' = CASE output.type = "kTableHandler" ->
                       [handler |-> "output", rows |-> output.rows]
                  [] output.type = "kRowHandler" ->
                       [handler |-> "MemTableHandler", rows |-> <<Head(output.rows)>>]
                  [] OTHER -> NoTable
    /\ pc' = [pc EXCEPT ![t] = "Run_return"]
    /\ UNCHANGED <<engine, call, is_batch, compile_info_, info, ncompile, nbuild>>
    /\ UNCHANGED <<history, explain_output, output, out_row, rows, limit, run_ret, pre>>

\* BatchRunSession::Run(rows, limit), from the null check to the return
\* statement; the loop runs while iter->Valid().
BatchRunRows(t) ==
    /\ pc[t] = "BatchRunRows_258"
    /\ CASE output.type = "null" ->
              /\ run_ret' = -1
              /\ UNCHANGED rows
         [] output.type = "kTableHandler" ->
              /\ run_ret' = 0
              /\ rows' = IF output.iter THEN rows \o output.rows ELSE rows
         [] output.type = "kRowHandler" ->
              /\ run_ret' = 0
              /\ rows' = Append(rows, Head(output.rows))
         [] output.type = "kPartitionHandler" ->
              /\ run_ret' = -1
              /\ UNCHANGED rows
         [] OTHER ->
              /\ run_ret' = 0
              /\ UNCHANGED rows
    /\ pc' = [pc EXCEPT ![t] = "Run_return"]
    /\ UNCHANGED <<engine, call, is_batch, compile_info_, info, ncompile, nbuild>>
    /\ UNCHANGED <<history, explain_output, output, out_row, limit, table, pre>>

\* A Run returns to its caller.
RunReturn(t) ==
    /\ pc[t] = "Run_return"
    /\ Leave(t)
    /\ output' = NullHandler
    /\ out_row' = NoRow
    /\ rows' = <<>>
    /\ limit' = 0
    /\ table' = NoTable
    /\ run_ret' = 0
    /\ pre' = NoPre
    /\ UNCHANGED <<engine, is_batch, compile_info_, info>>
    /\ UNCHANGED <<lastbound, skey, cleared, requested, explain_output>>

\* ------------------------------------------------------------------ Spec
\* The histories that only ClearSpec and FairSpec keep.
sidehistory == <<clearhistory, callhistory>>

\* Steps of Spec leave the histories of the other specifications and the
\* frames alone.
Quiet == UNCHANGED <<sidehistory, seqhistory, frame>>

\* Concurrent callers, each with sessions of one kind, on the databases RaceDBs.
Next ==
    \E t \in Threads :
        \/ NewSession(t, is_batch[t]) /\ Quiet
        \/ \E sql \in SQLs, db \in RaceDBs : GetCall(t, sql, db) /\ Quiet
        \/ GetCacheLocked_lock(t) /\ Quiet
        \/ GetCacheLocked(t) /\ Quiet
        \/ GetNew(t) /\ Quiet
        \/ \E ok \in BOOLEAN, code \in {0, 1} : GetCompile(t, ok, code) /\ Quiet
        \/ \E ok \in BOOLEAN, code \in {0, 1} : GetBuildRunner(t, ok, code) /\ Quiet
        \/ GetLock(t) /\ Quiet
        \/ GetInsert(t) /\ Quiet
        \/ GetReturn(t) /\ Quiet
        \/ \E db \in RaceDBs : ClearCacheCall(t, db) /\ Quiet
        \/ ClearCacheLocked_lock(t) /\ Quiet
        \/ ClearCacheLocked(t) /\ Quiet
        \/ ClearCacheReturn(t) /\ Quiet

Spec == Init /\ [][Next]_vars

\* -------------------------------------------------------------- FairSpec
\* Concurrent callers that begin at most MaxCalls calls each, under fair
\* scheduling: a thread inside a call keeps running, so a step of it that
\* stays possible is taken (Compile and BuildRunner return; a thread spinning
\* on mu_ keeps testing it).  Nothing obliges a caller to begin a call.
Begin(t) ==
    /\ calls[t] < MaxCalls
    /\ calls' = [calls EXCEPT ![t] = @ + 1]
    /\ UNCHANGED <<clearhistory, seqhistory, frame>>

Acquire(t) ==
    (GetCacheLocked_lock(t) \/ GetLock(t) \/ ClearCacheLocked_lock(t)) /\ Quiet

Proceed(t) ==
    /\ \/ GetCacheLocked(t)
       \/ GetNew(t)
       \/ \E ok \in BOOLEAN, code \in {0, 1} : GetCompile(t, ok, code)
       \/ \E ok \in BOOLEAN, code \in {0, 1} : GetBuildRunner(t, ok, code)
       \/ GetInsert(t)
       \/ GetReturn(t)
       \/ ClearCacheLocked(t)
       \/ ClearCacheReturn(t)
    /\ Quiet

FairNext ==
    \E t \in Threads :
        \/ NewSession(t, is_batch[t]) /\ Quiet
        \/ \E sql \in SQLs, db \in RaceDBs : GetCall(t, sql, db) /\ Begin(t)
        \/ GetCacheLocked_lock(t) /\ Quiet
        \/ GetCacheLocked(t) /\ Quiet
        \/ GetNew(t) /\ Quiet
        \/ \E ok \in BOOLEAN, code \in {0, 1} : GetCompile(t, ok, code) /\ Quiet
        \/ \E ok \in BOOLEAN, code \in {0, 1} : GetBuildRunner(t, ok, code) /\ Quiet
        \/ GetLock(t) /\ Quiet
        \/ GetInsert(t) /\ Quiet
        \/ GetReturn(t) /\ Quiet
        \/ \E db \in RaceDBs : ClearCacheCall(t, db) /\ Begin(t)
        \/ ClearCacheLocked_lock(t) /\ Quiet
        \/ ClearCacheLocked(t) /\ Quiet
        \/ ClearCacheReturn(t) /\ Quiet

FairSpec ==
    /\ Init
    /\ [][FairNext]_vars
    /\ \A t \in Threads : WF_vars(Proceed(t)) /\ WF_vars(Acquire(t))

\* ------------------------------------------------------------- ClearSpec
\* Spec with the history of the clears: which objects had their compilation
\* begun (GetNew: the object created, the catalog pointer loaded) before a
\* ClearCache of their database was called, once that ClearCache has returned.
Alive(r) == {i \in InfoIds : r[i] > 0}

\* A destroyed object leaves the history: its address may be used again.
Prune(S) == S \cap Alive(refs')

\* A step that is neither a call nor a return of interest to the history.
Track ==
    /\ pending' = [u \in Threads |-> Prune(pending[u])]
    /\ stale' = Prune(stale)
    /\ stale0' = [u \in Threads |-> Prune(stale0[u])]

\* ClearCache(db) is called by t: the objects of db alive now began before it.
TrackClearCall(t, db) ==
    /\ pending' = [u \in Threads |->
                     IF u = t THEN {i \in Alive(refs) : heap[i].db = db}
                     ELSE Prune(pending[u])]
    /\ stale' = Prune(stale)
    /\ stale0' = [u \in Threads |-> Prune(stale0[u])]

\* The ClearCache of t returns.
TrackClearReturn(t) ==
    /\ pending' = [u \in Threads |-> IF u = t THEN {} ELSE Prune(pending[u])]
    /\ stale' = Prune(stale \cup pending[t])
    /\ stale0' = [u \in Threads |-> Prune(stale0[u])]

\* Get is called by t.
TrackGetCall(t) ==
    /\ pending' = [u \in Threads |-> Prune(pending[u])]
    /\ stale' = Prune(stale)
    /\ stale0' = [u \in Threads |-> IF u = t THEN stale ELSE Prune(stale0[u])]

\* The Get of t returns.
TrackGetReturn(t) ==
    /\ pending' = [u \in Threads |-> Prune(pending[u])]
    /\ stale' = Prune(stale)
    /\ stale0' = [u \in Threads |-> IF u = t THEN {} ELSE Prune(stale0[u])]

Still == UNCHANGED <<callhistory, seqhistory, frame>>

ClearNext ==
    \E t \in Threads :
        \/ NewSession(t, is_batch[t]) /\ Track /\ Still
        \/ \E sql \in SQLs, db \in RaceDBs : GetCall(t, sql, db) /\ TrackGetCall(t) /\ Still
        \/ GetCacheLocked_lock(t) /\ Track /\ Still
        \/ GetCacheLocked(t) /\ Track /\ Still
        \/ GetNew(t) /\ Track /\ Still
        \/ \E ok \in BOOLEAN, code \in {0, 1} : GetCompile(t, ok, code) /\ Track /\ Still
        \/ \E ok \in BOOLEAN, code \in {0, 1} : GetBuildRunner(t, ok, code) /\ Track /\ Still
        \/ GetLock(t) /\ Track /\ Still
        \/ GetInsert(t) /\ Track /\ Still
        \/ GetReturn(t) /\ TrackGetReturn(t) /\ Still
        \/ \E db \in RaceDBs : ClearCacheCall(t, db) /\ TrackClearCall(t, db) /\ Still
        \/ ClearCacheLocked_lock(t) /\ Track /\ Still
        \/ ClearCacheLocked(t) /\ Track /\ Still
        \/ ClearCacheReturn(t) /\ TrackClearReturn(t) /\ Still

ClearSpec == Init /\ [][ClearNext]_vars

\* --------------------------------------------------------------- SeqSpec
\* A sequential run: a call begins only when no other call is in progress.
AllIdle == \A u \in Threads : pc[u] = "idle"

\* What a returning call leaves in `last`.
Returned(t, ok) ==
    [op |-> call[t].op, sql |-> call[t].sql, db |-> call[t].db,
     is_batch |-> call[t].is_batch, ok |-> ok]

SeqBegin ==
    /\ AllIdle
    /\ cache0' = <<batch_cache_, request_cache_>>
    /\ UNCHANGED last

SeqEnd(t, ok) ==
    /\ last' = Returned(t, ok)
    /\ cache0' = NoSnapshot

SeqNext ==
    \E t \in SeqThreads :
        \/ \E b \in BOOLEAN : NewSession(t, b) /\ AllIdle /\ Quiet
        \/ \E sql \in SQLs, db \in DBs : GetCall(t, sql, db) /\ SeqBegin /\ UNCHANGED <<sidehistory, frame>>
        \/ GetCacheLocked_lock(t) /\ Quiet
        \/ GetCacheLocked(t) /\ Quiet
        \/ GetNew(t) /\ Quiet
        \/ \E ok \in BOOLEAN, code \in {0, 1} : GetCompile(t, ok, code) /\ Quiet
        \/ \E ok \in BOOLEAN, code \in {0, 1} : GetBuildRunner(t, ok, code) /\ Quiet
        \/ GetLock(t) /\ Quiet
        \/ GetInsert(t) /\ Quiet
        \/ GetReturn(t) /\ SeqEnd(t, GetReturns(pc[t])) /\ UNCHANGED <<sidehistory, frame>>
        \/ \E db \in DBs : ClearCacheCall(t, db) /\ SeqBegin /\ UNCHANGED <<sidehistory, frame>>
        \/ ClearCacheLocked_lock(t) /\ Quiet
        \/ ClearCacheLocked(t) /\ Quiet
        \/ ClearCacheReturn(t) /\ SeqEnd(t, TRUE) /\ UNCHANGED <<sidehistory, frame>>
        \/ \E sql \in SQLs, db \in DBs, b \in BOOLEAN, valid \in BOOLEAN :
              ExplainCall(t, sql, db, b, valid) /\ SeqBegin /\ UNCHANGED sidehistory
        \/ \E ok \in BOOLEAN, code \in {0, 1} :
              ExplainCompile(t, ok, code) /\ UNCHANGED <<sidehistory, seqhistory>>
        \/ ExplainReturn(t) /\ SeqEnd(t, ExplainReturns(pc[t])) /\ UNCHANGED sidehistory

SeqSpec == Init /\ [][SeqNext]_vars

\* --------------------------------------------------------------- RunSpec
\* One caller gets sessions compiled for one sql of one database and runs
\* them, one call at a time (the frame variables hold the Run call in progress).
RunCaller == CHOOSE t \in Threads : \A u \in Threads : t <= u
RunDB == CHOOSE d \in DBs : \A e \in DBs : d <= e
RunSQL == CHOOSE q \in SQLs : \A r \in SQLs : q <= r

RunNext ==
    \E t \in {RunCaller} :
        \/ \E b \in BOOLEAN : NewSession(t, b) /\ AllIdle /\ Quiet
        \/ GetCall(t, RunSQL, RunDB) /\ AllIdle /\ Quiet
        \/ GetCacheLocked_lock(t) /\ Quiet
        \/ GetCacheLocked(t) /\ Quiet
        \/ GetNew(t) /\ Quiet
        \/ \E ok \in BOOLEAN, code \in {0, 1} : GetCompile(t, ok, code) /\ Quiet
        \/ \E ok \in BOOLEAN, code \in {0, 1} : GetBuildRunner(t, ok, code) /\ Quiet
        \/ GetLock(t) /\ Quiet
        \/ GetInsert(t) /\ Quiet
        \/ GetReturn(t) /\ Quiet
        \/ \E row \in Rows \cup {NoRow} :
              RequestRunCall(t, row) /\ AllIdle /\ UNCHANGED <<sidehistory, seqhistory>>
        \/ BatchRunCall(t) /\ AllIdle /\ UNCHANGED <<sidehistory, seqhistory>>
        \/ \E rs \in RowSeqs(1), lim \in 0..MaxLimit :
              BatchRunRowsCall(t, rs, lim) /\ AllIdle /\ UNCHANGED <<sidehistory, seqhistory>>
        \/ \E h \in Handlers : RunWithCache(t, h) /\ UNCHANGED <<sidehistory, seqhistory>>
        \/ RequestRun(t) /\ UNCHANGED <<sidehistory, seqhistory>>
        \/ BatchRun(t) /\ UNCHANGED <<sidehistory, seqhistory>>
        \/ BatchRunRows(t) /\ UNCHANGED <<sidehistory, seqhistory>>
        \/ RunReturn(t) /\ UNCHANGED <<sidehistory, seqhistory>>

RunSpec == Init /\ [][RunNext]_vars

\* ================================================================ claims
\* The entry of key k in the cache of its mode, or the empty pointer.
Cached(k) ==
    IF k.is_batch THEN Find(batch_cache_, k.db, k.sql)
    ELSE Find(request_cache_, k.db, k.sql)

\* The same, in given values of the two caches.
CachedIn(bc, rc, k) ==
    IF k.is_batch THEN Find(bc, k.db, k.sql) ELSE Find(rc, k.db, k.sql)

\* Every pointer that either cache stores.
AllEntries == Entries(batch_cache_) \cup Entries(request_cache_)

\* Thread t is in Get and past the lookup, on the path of a miss.
OnMissPath(t) ==
    pc[t] \in {"Get_75", "Get_82", "Get_85", "Get_88", "Get_91", "Get_96", "Get_97",
               "Get_123"}

\* C1: concurrent Gets of one key end bound to one instance, the one the
\* cache holds.  Every session that a Get bound, with no ClearCache of its
\* database since, refers to the CompileInfo stored at its key, so all such
\* sessions of one key share one instance; and the artifact of a thread that
\* lost the insert race (it is about to return with a session bound to
\* another instance) is in no cache and in no session.
C1_OneInstance ==
    /\ \A t \in Threads :
          compile_info_[t] /= NullInfo /\ ~cleared[t]
              => Cached(skey[t]) = compile_info_[t]
    /\ \A t, u \in Threads :
          /\ compile_info_[t] /= NullInfo /\ ~cleared[t]
          /\ compile_info_[u] /= NullInfo /\ ~cleared[u]
          /\ skey[t] = skey[u]
          => compile_info_[t] = compile_info_[u]
    /\ \A t \in Threads :
          pc[t] = "Get_123" /\ info[t] /= compile_info_[t]
              => /\ info[t] \notin AllEntries
                 /\ \A u \in Threads : compile_info_[u] /= info[t]

\* Two threads compiled the same key, both are about to return true, no
\* ClearCache ran: both sessions hold the cached instance and one artifact lost.
C1_Witness ==
    \E t, u \in Threads :
        /\ t /= u
        /\ pc[t] = "Get_123" /\ pc[u] = "Get_123"
        /\ KeyOf(t) = KeyOf(u)
        /\ ncompile[t] = 1 /\ ncompile[u] = 1
        /\ ~cleared[t] /\ ~cleared[u]
        /\ info[t] = compile_info_[t]
        /\ info[u] /= compile_info_[u]
        /\ compile_info_[u] = compile_info_[t]
        /\ Cached(KeyOf(t)) = compile_info_[t]

\* C2: Get never overwrites an entry.  An entry of either cache stays the
\* same instance in every step, or is removed by the erase of a
\* ClearCache of its database; and a Get that finds its key present in the
\* check block binds its session to that entry and stores nothing.
C2_NeverOverwrite ==
    [][/\ \A k \in Keys :
            Cached(k) /= NullInfo
                => \/ CachedIn(batch_cache_', request_cache_', k) = Cached(k)
                   \/ /\ CachedIn(batch_cache_', request_cache_', k) = NullInfo
                      /\ \E t \in Threads :
                            /\ pc[t] = "Clear_155" /\ pc'[t] = "Clear_157"
                            /\ call[t].db = k.db
       /\ \A t \in Threads :
            pc[t] = "Get_97" /\ pc'[t] = "Get_123" /\ Cached(KeyOf(t)) /= NullInfo
                => /\ compile_info_'[t] = Cached(KeyOf(t))
                   /\ batch_cache_' = batch_cache_
                   /\ request_cache_' = request_cache_
                   /\ refs'[info[t]] = 1
      ]_vars

\* A Get has left the check block bound to an entry that was already there.
C2_Witness ==
    \E t \in Threads :
        /\ pc[t] = "Get_123"
        /\ info[t] /= compile_info_[t]
        /\ Cached(KeyOf(t)) = compile_info_[t]
        /\ refs[info[t]] = 1

\* C3: cache identity.  A Get called for a key that an earlier Get bound,
\* with no ClearCache of the database taking effect since that binding,
\* calls neither Compile nor BuildRunner and binds the same instance.
C3_CacheIdentity ==
    \A t \in Threads :
        call[t].op = "Get" /\ prior[t] /= NullInfo
            => /\ ~OnMissPath(t)
               /\ ncompile[t] = 0 /\ nbuild[t] = 0
               /\ pc[t] = "Get_71" => compile_info_[t] = prior[t]

\* A second Get is about to return true on a hit.
C3_Witness ==
    \E t \in Threads :
        /\ pc[t] = "Get_71"
        /\ prior[t] /= NullInfo
        /\ compile_info_[t] = prior[t]
        /\ ncompile[t] = 0

\* Thread t is in Get and Compile has returned.
Compiled(t) ==
    pc[t] \in {"Get_85", "Get_88", "Get_91", "Get_96", "Get_97", "Get_123"}

\* The step is the erase of a ClearCache(db) by thread t.
EraseStep(t, db) ==
    pc[t] = "Clear_155" /\ pc'[t] = "Clear_157" /\ call[t].db = db

\* C4: ClearCache scoping.  The erase of ClearCache(db) leaves no entry
\* and no inner map of db in the batch cache or in the request cache, and
\* leaves every entry of every other database as it is.  In a sequential run
\* the Get that follows a ClearCache(db) for a key of db misses and calls
\* Compile once, and a Get for a key of another database that an earlier Get
\* bound hits that entry and compiles nothing.
C4_ClearCacheScoping ==
    /\ [][\A t \in Threads :
            EraseStep(t, call[t].db)
                => /\ call[t].db \notin DOMAIN batch_cache_'
                   /\ call[t].db \notin DOMAIN request_cache_'
                   /\ \A k \in Keys :
                         CachedIn(batch_cache_', request_cache_', k)
                             = IF k.db = call[t].db THEN NullInfo ELSE Cached(k)
         ]_vars
    /\ [](\A t \in Threads :
            call[t].op = "Get" /\ last.op = "ClearCache"
                => IF call[t].db = last.db
                   THEN /\ pc[t] /= "Get_71"
                        /\ Compiled(t) => ncompile[t] = 1
                   ELSE prior[t] /= NullInfo
                            => /\ ~OnMissPath(t)
                               /\ ncompile[t] = 0
                               /\ pc[t] = "Get_71" => compile_info_[t] = prior[t])

\* After ClearCache(db) a session that was bound to a key of db has compiled
\* that key again, while an entry of another database is still cached.
C4_Witness ==
    \E t \in Threads :
        /\ pc[t] = "Get_97"
        /\ last.op = "ClearCache" /\ last.db = call[t].db
        /\ skey[t] = KeyOf(t) /\ cleared[t]
        /\ ncompile[t] = 1
        /\ \E k \in Keys : k.db /= last.db /\ Cached(k) /= NullInfo

\* C5: mode isolation.  No instance is stored in both caches and every
\* stored instance was compiled in the mode of its cache.  In a sequential
\* run a Get whose key is absent from the cache of its own mode misses and
\* calls Compile once, whatever the cache of the other mode holds; a hit binds
\* the entry of the own mode; and no step of a Get changes the cache of the
\* other mode.
C5_ModeIsolation ==
    /\ [](/\ Entries(batch_cache_) \cap Entries(request_cache_) = {}
          /\ \A i \in Entries(batch_cache_) : heap[i].is_batch_mode
          /\ \A i \in Entries(request_cache_) : ~heap[i].is_batch_mode
          /\ \A t \in Threads :
                call[t].op = "Get"
                    => /\ CachedIn(cache0[1], cache0[2], KeyOf(t)) = NullInfo
                           => /\ pc[t] /= "Get_71"
                              /\ Compiled(t) => ncompile[t] = 1
                       /\ pc[t] = "Get_71"
                           => /\ compile_info_[t]
                                    = CachedIn(cache0[1], cache0[2], KeyOf(t))
                              /\ heap[compile_info_[t]].is_batch_mode = is_batch[t]
                       /\ pc[t] = "Get_123"
                           => /\ compile_info_[t] = Cached(KeyOf(t))
                              /\ heap[compile_info_[t]].is_batch_mode = is_batch[t])
    /\ [][\A t \in Threads :
            call[t].op = "Get" /\ call'[t].op = "Get"
                => IF is_batch[t] THEN request_cache_' = request_cache_
                   ELSE batch_cache_' = batch_cache_
         ]_vars

\* A Get has compiled and stored a key that the other mode's cache already
\* held: the two caches hold two instances for one (db, sql).
C5_Witness ==
    \E t \in Threads :
        LET own == KeyOf(t)
            other == [own EXCEPT !.is_batch = ~own.is_batch] IN
        /\ pc[t] = "Get_123"
        /\ ncompile[t] = 1
        /\ CachedIn(cache0[1], cache0[2], own) = NullInfo
        /\ CachedIn(cache0[1], cache0[2], other) /= NullInfo
        /\ Cached(own) = compile_info_[t]
        /\ Cached(other) = CachedIn(cache0[1], cache0[2], other)
        /\ Cached(own) /= Cached(other)

\* Key k loses its entry in the step.
Removed(k) ==
    Cached(k) /= NullInfo /\ CachedIn(batch_cache_', request_cache_', k) = NullInfo

\* C6 as stated: a step that removes an entry of the batch cache leaves the
\* request cache unchanged, and a step that removes an entry of the request
\* cache leaves the batch cache unchanged.
C6_AsStated ==
    [][/\ (\E k \in Keys : k.is_batch /\ Removed(k)) => request_cache_' = request_cache_
       /\ (\E k \in Keys : ~k.is_batch /\ Removed(k)) => batch_cache_' = batch_cache_
      ]_vars

\* C6, amended: the only step that removes entries is the erase of a
\* ClearCache(db), and it clears one database in both modes at once: every
\* entry of db goes from the batch cache and from the request cache in the
\* same step, and the entries of every other database stay in both caches.
C6_ClearsBothModesOfOneDb ==
    [][\A k \in Keys :
          Removed(k)
              => \E t \in Threads :
                    /\ EraseStep(t, k.db)
                    /\ \A j \in Keys :
                          CachedIn(batch_cache_', request_cache_', j)
                              = IF j.db = k.db THEN NullInfo ELSE Cached(j)
      ]_vars

\* A ClearCache(db) has just erased db while db had an entry in each mode
\* and another database had an entry too.
C6_Witness ==
    \E t \in Threads :
        /\ pc[t] = "Clear_157"
        /\ \E k \in Keys :
              /\ k.db = call[t].db
              /\ CachedIn(cache0[1], cache0[2], k) /= NullInfo
              /\ CachedIn(cache0[1], cache0[2], [k EXCEPT !.is_batch = ~k.is_batch])
                     /= NullInfo
              /\ Cached(k) = NullInfo
              /\ Cached([k EXCEPT !.is_batch = ~k.is_batch]) = NullInfo
        /\ \E j \in Keys :
              /\ j.db /= call[t].db
              /\ Cached(j) /= NullInfo
              /\ Cached(j) = CachedIn(cache0[1], cache0[2], j)

\* The key of the call that `last` records.
LastKey == [is_batch |-> last.is_batch, db |-> last.db, sql |-> last.sql]

\* C7: Explain never caches.  No step of an Explain call changes the
\* caches, the stored objects, their owners or the lock.  An Explain with
\* valid output arguments is at its return statement, true or false, after
\* exactly one call of Compile and none of BuildRunner, with both caches as
\* they were at the call.  A Get for a key that no Get asked for before
\* misses and calls Compile once, whatever Explain calls came before it.
C7_ExplainNeverCaches ==
    /\ [][\A t \in Threads :
            call[t].op = "Explain" \/ call'[t].op = "Explain"
                => UNCHANGED <<mu_, batch_cache_, request_cache_, heap, refs>>
         ]_vars
    /\ [](\A t \in Threads :
            /\ pc[t] \in {"Explain_131", "Explain_133"}
                  => ncompile[t] = 0 /\ nbuild[t] = 0
            /\ pc[t] \in {"Explain_143", "Explain_150"}
                  => /\ ncompile[t] = 1 /\ nbuild[t] = 0
                     /\ <<batch_cache_, request_cache_>> = cache0
            /\ call[t].op = "Get" /\ first[t]
                  => /\ pc[t] /= "Get_71"
                     /\ Compiled(t) => ncompile[t] = 1)

\* The first Get of a key has compiled it right after a successful Explain of
\* the same sql, db and mode.
C7_Witness ==
    \E t \in Threads :
        /\ pc[t] = "Get_123"
        /\ first[t]
        /\ ncompile[t] = 1
        /\ last.op = "Explain" /\ last.ok
        /\ LastKey = KeyOf(t)

\* C8: a failed Get leaves no cache trace.  In a sequential run, a Get at
\* a `return false` (Compile failed, or BuildRunner failed, which only an
\* engine that is not compile-only calls) has both caches exactly as they
\* were at the call, its key absent from the cache of its mode, and its
\* artifact in no cache and in no session; and the Get of the same key that
\* follows a failed Get misses and calls Compile once.
C8_FailedGetLeavesNoTrace ==
    \A t \in Threads :
        /\ pc[t] \in {"Get_85", "Get_91"}
              => /\ ~GetReturns(pc[t])
                 /\ <<batch_cache_, request_cache_>> = cache0
                 /\ Cached(KeyOf(t)) = NullInfo
                 /\ info[t] \notin AllEntries
                 /\ \A u \in Threads : compile_info_[u] /= info[t]
                 /\ pc[t] = "Get_91" => ~compile_only
        /\ compile_only => nbuild[t] = 0
        /\ call[t].op = "Get" /\ last.op = "Get" /\ ~last.ok /\ LastKey = KeyOf(t)
              => /\ pc[t] /= "Get_71"
                 /\ Compiled(t) => ncompile[t] = 1

\* BuildRunner has failed in the Get that follows a failed Get of the same
\* key, with other entries in the caches.
C8_Witness ==
    \E t \in Threads :
        /\ pc[t] = "Get_91"
        /\ ncompile[t] = 1 /\ nbuild[t] = 1
        /\ last.op = "Get" /\ ~last.ok /\ LastKey = KeyOf(t)
        /\ AllEntries /= {}
        /\ <<batch_cache_, request_cache_>> = cache0

\* C9: ClearCache never invalidates a bound session.  An object that
\* has been destroyed is in no cache and bound to no session; the object a
\* session is bound to is alive and is the compiled artifact of the key the
\* session was bound for; and while a session stays bound to an object, no
\* step, ClearCache included, changes that object.
C9_BoundSessionStaysValid ==
    /\ [](/\ \A i \in InfoIds :
                (refs[i] = 0 \/ heap[i] = FreeInfo)
                    => /\ i \notin AllEntries
                       /\ \A t \in Threads : compile_info_[t] /= i
          /\ \A t \in Threads :
                compile_info_[t] /= NullInfo
                    => /\ refs[compile_info_[t]] > 0
                       /\ heap[compile_info_[t]] =
                             [sql |-> skey[t].sql, db |-> skey[t].db,
                              is_batch_mode |-> skey[t].is_batch,
                              physical_plan |-> TRUE, runner |-> ~compile_only])
    /\ [][\A t \in Threads :
            compile_info_[t] /= NullInfo /\ compile_info_'[t] = compile_info_[t]
                => heap'[compile_info_[t]] = heap[compile_info_[t]]
         ]_vars

\* A session is still bound to an object that a ClearCache removed from the
\* cache; the session is its only owner and the key has a new entry.
C9_Witness ==
    \E t \in Threads :
        /\ pc[t] = "idle"
        /\ compile_info_[t] /= NullInfo
        /\ cleared[t]
        /\ compile_info_[t] \notin AllEntries
        /\ refs[compile_info_[t]] = 1
        /\ heap[compile_info_[t]].physical_plan
        /\ Cached(skey[t]) /= NullInfo

\* C10: partition rejection.  When RunWithCache returned a partition
\* handler, RequestRunSession::Run is at its return with a code other than 0
\* and *out_row as it was at the call, BatchRunSession::Run() returns the
\* empty table pointer, and BatchRunSession::Run(rows, limit) returns a code
\* other than 0 with rows as they were at the call.
C10_PartitionRejected ==
    \A t \in Threads :
        pc[t] = "Run_return" /\ output.type = "kPartitionHandler"
            => /\ call[t].op = "RequestRun"
                     => run_ret /= 0 /\ out_row = pre.out_row
               /\ call[t].op = "BatchRun" => table = NoTable
               /\ call[t].op = "BatchRunRows"
                     => run_ret /= 0 /\ rows = pre.rows

\* Run(rows, limit) was called with a row already in rows and the runner
\* returned a partition handler.
C10_Witness ==
    \E t \in Threads :
        /\ pc[t] = "Run_return"
        /\ call[t].op = "BatchRunRows"
        /\ output.type = "kPartitionHandler"
        /\ pre.rows /= <<>>
        /\ rows = pre.rows
        /\ run_ret = -1

\* Thread t is at the return of the Run entry point op.
RunAt(t, op) == pc[t] = "Run_return" /\ call[t].op = op

\* C11: output normalization.  When the runner returned a row handler
\* holding R, BatchRunSession::Run() returns a new MemTableHandler that holds
\* the one row R, and RequestRunSession::Run returns 0 with *out_row = R; when
\* the runner returned a table handler, BatchRunSession::Run() returns that
\* same handler with the rows it had.
C11_OutputNormalization ==
    \A t \in Threads :
        /\ RunAt(t, "BatchRun") /\ output.type = "kRowHandler"
              => table = [handler |-> "MemTableHandler", rows |-> <<output.rows[1]>>]
        /\ RunAt(t, "RequestRun") /\ output.type = "kRowHandler"
              => run_ret = 0 /\ out_row = output.rows[1]
        /\ RunAt(t, "BatchRun") /\ output.type = "kTableHandler"
              => table = [handler |-> "output", rows |-> output.rows]

\* Run() is at its return with a one-row table made from a row handler.
C11_Witness ==
    \E t \in Threads, r \in Rows :
        /\ RunAt(t, "BatchRun")
        /\ output.type = "kRowHandler" /\ output.rows = <<r>>
        /\ table.handler = "MemTableHandler"
        /\ Len(table.rows) = 1 /\ table.rows[1] = r

\* C12 as stated: Run(rows, limit), called with an empty vector on a table
\* handler that yields more than limit rows, returns with at most limit rows
\* in the vector.
C12_LimitEnforced ==
    \A t \in Threads :
        /\ RunAt(t, "BatchRunRows")
        /\ output.type = "kTableHandler" /\ output.iter
        /\ pre.rows = <<>>
        /\ limit < Len(output.rows)
        => Len(rows) <= limit

\* C14: a null output is a failure and an empty table is a success.
\* With a null output RequestRunSession::Run and Run(rows, limit) return a
\* code other than 0 and Run() returns the empty pointer, with *out_row and
\* rows as they were at the call; with a table handler of zero rows
\* RequestRunSession::Run and Run(rows, limit) return 0, again with *out_row
\* and rows as they were.
C14_NullFailsEmptySucceeds ==
    \A t \in Threads :
        /\ RunAt(t, "RequestRun") /\ output.type = "null"
              => run_ret /= 0 /\ out_row = pre.out_row
        /\ RunAt(t, "BatchRunRows") /\ output.type = "null"
              => run_ret /= 0 /\ rows = pre.rows
        /\ RunAt(t, "BatchRun") /\ output.type = "null" => table = NoTable
        /\ RunAt(t, "RequestRun") /\ output.type = "kTableHandler" /\ output.rows = <<>>
              => run_ret = 0 /\ out_row = pre.out_row
        /\ RunAt(t, "BatchRunRows") /\ output.type = "kTableHandler" /\ output.rows = <<>>
              => run_ret = 0 /\ rows = pre.rows

\* RequestRunSession::Run got a null output after it was called with a row
\* already in *out_row.
C14_Witness ==
    \E t \in Threads :
        /\ RunAt(t, "RequestRun")
        /\ output.type = "null"
        /\ pre.out_row /= NoRow
        /\ out_row = pre.out_row
        /\ run_ret = -1

\* C15: RequestRunSession::Run on a table handler returns 0; *out_row is
\* the first row of the iterator when the handler yields an iterator and has
\* a row, and keeps the value it had at the call when the table is empty or
\* yields no iterator.
C15_RequestRunOnTable ==
    \A t \in Threads :
        RunAt(t, "RequestRun") /\ output.type = "kTableHandler"
            => /\ run_ret = 0
               /\ out_row = IF output.iter /\ Len(output.rows) > 0
                            THEN output.rows[1] ELSE pre.out_row

\* A table of two different rows: *out_row is the first, not what it was.
C15_Witness ==
    \E t \in Threads :
        /\ RunAt(t, "RequestRun")
        /\ output.type = "kTableHandler" /\ output.iter
        /\ Len(output.rows) = 2 /\ output.rows[1] /= output.rows[2]
        /\ out_row = output.rows[1]
        /\ out_row /= pre.out_row
        /\ run_ret = 0

\* C17 as stated: a handler whose discriminant is none of table, row and
\* partition is a failure in the three entry points: RequestRunSession::Run
\* and Run(rows, limit) return a code other than 0 and Run() returns the
\* empty pointer.
C17_ClosedDispatch ==
    \A t \in Threads :
        pc[t] = "Run_return"
        /\ output.type \notin {"null", "kTableHandler", "kRowHandler", "kPartitionHandler"}
        => /\ call[t].op = "RequestRun" => run_ret /= 0
           /\ call[t].op = "BatchRunRows" => run_ret /= 0
           /\ call[t].op = "BatchRun" => table = NoTable

\* The lines at which a thread holds mu_: the lookup of GetCacheLocked, the
\* check block of Get and the erase of ClearCacheLocked.
LockedLines == {"GetCache_163", "Get_97", "Clear_155"}

\* The lines at which Get creates the artifact and loads the catalog
\* pointer, calls Compile and calls BuildRunner.
CompileLines == {"Get_75", "Get_82", "Get_88"}

\* C13: compilation happens outside the cache lock.  A thread that is
\* about to load the catalog pointer, to call Compile or to call BuildRunner
\* does not hold mu_; a thread holds mu_ exactly while it is in the lookup of
\* GetCacheLocked, in the check block of Get or in the erase of ClearCache;
\* and no two threads are in those sections at once.
C13_CompileOutsideLock ==
    /\ \A t \in Threads :
          /\ pc[t] \in CompileLines => mu_ /= t
          /\ mu_ = t <=> pc[t] \in LockedLines
    /\ \A t, u \in Threads :
          pc[t] \in LockedLines /\ pc[u] \in LockedLines => t = u

\* One thread is about to call Compile while another holds the lock in
\* the check block.
C13_Witness ==
    \E t, u \in Threads :
        /\ t /= u
        /\ pc[t] = "Get_82"
        /\ pc[u] = "Get_97"
        /\ mu_ = u

\* C18: no partially built artifact is cached or bound.  Every
\* CompileInfo in a cache or bound to a session has its physical plan, and in
\* an engine that is not compile-only its runner tree as well; the artifact
\* of a Get at a `return false` is in no cache and bound to no session.
C18_NoPartialArtifact ==
    /\ \A i \in (AllEntries \cup {compile_info_[t] : t \in Threads}) \ {NullInfo} :
          /\ heap[i].physical_plan
          /\ ~compile_only => heap[i].runner
    /\ \A t \in Threads :
          pc[t] \in {"Get_85", "Get_91"}
              => /\ info[t] \notin AllEntries
                 /\ \A u \in Threads : compile_info_[u] /= info[t]

\* In an engine that builds runners, a Get whose BuildRunner failed is at
\* its return with an artifact that has a plan and no runner, while the
\* cache holds a complete artifact for the same key.
C18_Witness ==
    \E t \in Threads :
        /\ ~compile_only
        /\ pc[t] = "Get_91"
        /\ heap[info[t]].physical_plan /\ ~heap[info[t]].runner
        /\ Cached(KeyOf(t)) /= NullInfo
        /\ heap[Cached(KeyOf(t))].runner

\* The key that the sql context of CompileInfo i carries.
ContextOf(i) == [is_batch |-> heap[i].is_batch_mode, db |-> heap[i].db, sql |-> heap[i].sql]

\* C20: key/artifact agreement and binding on outcome.  The CompileInfo
\* stored at (db, sql) in the batch cache carries that sql, that db and
\* is_batch_mode true, and the one in the request cache the same with
\* is_batch_mode false.  A Get at a `return true` has its session bound to a
\* CompileInfo that carries the sql, db and mode of the call.  A step of a Get
\* changes the binding of the session only when it reaches a `return true`, so
\* a Get that returns false leaves the binding as it was.
C20_KeyArtifactAgreement ==
    /\ [](/\ \A k \in Keys : Cached(k) /= NullInfo => ContextOf(Cached(k)) = k
          /\ \A t \in Threads :
                pc[t] \in {"Get_71", "Get_123"}
                    => /\ compile_info_[t] /= NullInfo
                       /\ ContextOf(compile_info_[t]) = KeyOf(t))
    /\ [][\A t \in Threads :
            call[t].op = "Get" /\ compile_info_'[t] /= compile_info_[t]
                => pc[t] \in {"GetCache_163", "Get_97"} /\ pc'[t] \in {"Get_71", "Get_123"}
         ]_vars

\* A Get is at `return false` with its session still bound to the object
\* an earlier Get bound, which a ClearCache has since removed from the cache.
C20_Witness ==
    \E t \in Threads :
        /\ pc[t] \in {"Get_85", "Get_91"}
        /\ compile_info_[t] /= NullInfo
        /\ cleared[t]
        /\ compile_info_[t] /= info[t]
        /\ ContextOf(compile_info_[t]) = skey[t]

\* C16 as stated: a Get called after a ClearCache(db) has returned is
\* never bound, by a hit or by its own check block, to a CompileInfo whose
\* compilation began before that ClearCache was called.
C16_NoStaleEntry ==
    \A t \in Threads :
        pc[t] \in {"Get_71", "Get_123"} => compile_info_[t] \notin stale0[t]

\* The lines at which a thread is about to acquire mu_.
AcquireLines == {"Get_68", "Get_96", "Clear_154"}

\* The lines of the return statements of Get and of ClearCacheLocked.
ReturnLines == {"Get_71", "Get_85", "Get_91", "Get_123", "Clear_157"}

\* C19: Get always completes.  Under fair scheduling, with any of the
\* numbers of calls per thread up to MaxCalls, every Get and every ClearCache
\* call that has begun returns.  A thread at a return statement,
\* `return false` included, does not hold mu_; a thread that is not about to
\* acquire mu_ can always take its next step, whatever the other threads do;
\* and a thread that cannot acquire mu_ waits for a thread that is inside a
\* locked section, never for one that is compiling.
C19_GetCompletes ==
    /\ \A t \in Threads : (pc[t] /= "idle") ~> (pc[t] = "idle")
    /\ [](\A t \in Threads :
            /\ pc[t] \in ReturnLines => mu_ /= t
            /\ pc[t] \notin AcquireLines \cup {"idle"} => ENABLED Proceed(t)
            /\ pc[t] \in AcquireLines /\ ~ENABLED Acquire(t)
                  => \E u \in Threads :
                        u /= t /\ mu_ = u /\ pc[u] \in LockedLines)

\* A Get that has compiled waits for mu_ while a ClearCache holds it and
\* is about to erase.
C19_Witness ==
    \E t, u \in Threads :
        /\ pc[t] = "Get_96"
        /\ ncompile[t] = 1
        /\ mu_ = u
        /\ pc[u] = "Clear_155"

TypeOK ==
    /\ mu_ \in Threads \cup {0}
    /\ \A i \in InfoIds : refs[i] >= 0
    /\ \A t \in Threads : compile_info_[t] \in InfoIds \cup {NullInfo}
    /\ \A t \in Threads : pc[t] \in {"Get_82", "Get_88", "Get_96", "Get_97", "Get_123"}
                              => refs[info[t]] > 0

====
